---- MODULE Spec2Model ----
(***************************************************************************)
(* A model of trader/okx_trader.go: the OKX perpetual-swap trader.  The    *)
(* trader's only field that changes is the precision cache; the exchange   *)
(* behind the REST client is the environment, and every answer it can give *)
(* to a request is a nondeterministic choice of the action that issues it. *)
(*                                                                         *)
(* Go strings that the code takes apart (symbols, instrument IDs, decimal  *)
(* numbers) are sequences of one-character strings; error messages are     *)
(* sequences of words, the code's own messages given in English.  A        *)
(* float64 amount is an integer count of 10^-FracDigits units.             *)
(***************************************************************************)
EXTENDS Integers, Sequences, FiniteSets, TLC

VARIABLES
    precisions,  \* OkxTrader.precisions: cache key -> digit count
    lever,       \* exchange side: instrument ID -> leverage in effect (0: never set)
    op,          \* the public call made last: its name and arguments
    calls,       \* the exchange requests that call issued, in order, each with its answer
    ret,         \* what that call returned: [err, val]
    threads      \* callers running at once: where each is in its call, and its locals

vars == <<precisions, lever, op, calls, ret, threads>>

\* ---------------------------------------------------------------- bounds

MaxParts == 3      \* a symbol drawn as input is made of at most this many parts
FracDigits == 5    \* decimal digits kept of a float64 amount
MaxListed == 2     \* conditional orders the exchange lists per kind
MaxPositions == 2  \* entries of the exchange's position list
MaxAccounts == 2   \* account records the exchange answers with
NumCallers == 2    \* callers that run at the same time

\* ------------------------------------------------- strings (package strings)

USDT == <<"U", "S", "D", "T">>
SwapSuffix == <<"-", "U", "S", "D", "T", "-", "S", "W", "A", "P">>

\* strings.HasSuffix
HasSuffix(s, suffix) ==
    /\ Len(s) >= Len(suffix)
    /\ SubSeq(s, Len(s) - Len(suffix) + 1, Len(s)) = suffix

\* strings.Index, 1-based; 0 when sub does not occur in s
Index(s, sub) ==
    LET at == {i \in 1..(Len(s) - Len(sub) + 1) : SubSeq(s, i, i + Len(sub) - 1) = sub}
    IN IF at = {} THEN 0 ELSE CHOOSE i \in at : \A j \in at : i <= j

\* strings.Contains
Contains(s, sub) == Index(s, sub) # 0

\* strings.Replace(s, old, new, 1): the first occurrence only
ReplaceFirst(s, old, new) ==
    LET i == Index(s, old)
    IN IF i = 0 THEN s
       ELSE SubSeq(s, 1, i - 1) \o new \o SubSeq(s, i + Len(old), Len(s))

\* ------------------------------------------------------ symbol translation

okxSymbol(symbol) ==
    IF HasSuffix(symbol, USDT)
    THEN ReplaceFirst(symbol, USDT, SwapSuffix)
    ELSE symbol \o SwapSuffix

standardSymbol(instID) ==
    IF HasSuffix(instID, SwapSuffix)
    THEN ReplaceFirst(instID, SwapSuffix, USDT)
    ELSE instID

\* ------------------------------------------------- numbers (strconv, fmt)

DigitChars == <<"0", "1", "2", "3", "4", "5", "6", "7", "8", "9">>

IsDigit(c) == \E d \in 1..10 : DigitChars[d] = c

DigitVal(c) == (CHOOSE d \in 1..10 : DigitChars[d] = c) - 1

RECURSIVE Pow10(_)
Pow10(n) == IF n = 0 THEN 1 ELSE 10 * Pow10(n - 1)

RECURSIVE DigitsToNat(_)
DigitsToNat(ds) ==
    IF ds = <<>> THEN 0
    ELSE 10 * DigitsToNat(SubSeq(ds, 1, Len(ds) - 1)) + DigitVal(ds[Len(ds)])

RECURSIVE NatToDigits(_)
NatToDigits(n) ==
    IF n < 10 THEN <<DigitChars[n + 1]>>
    ELSE NatToDigits(n \div 10) \o <<DigitChars[(n % 10) + 1]>>

\* n written with exactly width digits, zeros in front
ZeroPad(n, width) ==
    LET ds == NatToDigits(n)
    IN [i \in 1..(width - Len(ds)) |-> "0"] \o ds

\* parseFloat: strconv.ParseFloat of a decimal numeral (sign, digits, one point),
\* 0 for anything it cannot parse.  Digits past FracDigits are dropped.
parseFloat(s) ==
    LET signed == s # <<>> /\ s[1] \in {"-", "+"}
        body == IF signed THEN SubSeq(s, 2, Len(s)) ELSE s
        dot == Index(body, <<".">>)
        whole == IF dot = 0 THEN body ELSE SubSeq(body, 1, dot - 1)
        frac == IF dot = 0 THEN <<>> ELSE SubSeq(body, dot + 1, Len(body))
        wellFormed == /\ \A i \in 1..Len(whole) : IsDigit(whole[i])
                      /\ \A i \in 1..Len(frac) : IsDigit(frac[i])
                      /\ Len(whole) + Len(frac) > 0
        kept == [i \in 1..FracDigits |-> IF i <= Len(frac) THEN frac[i] ELSE "0"]
        abs == DigitsToNat(whole) * Pow10(FracDigits) + DigitsToNat(kept)
    IN IF ~wellFormed THEN 0
       ELSE IF signed /\ s[1] = "-" THEN 0 - abs ELSE abs

\* fmt.Sprintf("%.<precision>f", value): value rounded to precision decimal
\* digits (a tie goes to the even digit), no decimal point when precision is 0
FormatFixed(value, precision) ==
    LET abs == IF value < 0 THEN 0 - value ELSE value
        d == Pow10(FracDigits - precision)
        q == abs \div d
        r == abs % d
        n == IF precision >= FracDigits THEN abs * Pow10(precision - FracDigits)
             ELSE IF 2 * r > d \/ (2 * r = d /\ q % 2 = 1) THEN q + 1 ELSE q
        whole == NatToDigits(n \div Pow10(precision))
        frac == ZeroPad(n % Pow10(precision), precision)
    IN (IF value < 0 THEN <<"-">> ELSE <<>>)
       \o whole
       \o (IF precision = 0 THEN <<>> ELSE <<".">> \o frac)

\* calculatePrecision: the number of digits after the decimal point of a
\* minimum-step numeral, 0 when it has none
calculatePrecision(step) ==
    LET dot == Index(step, <<".">>)
    IN IF dot = 0 THEN 0 ELSE Len(step) - dot

\* the digits after the decimal point of a rendered number
Decimals(str) ==
    LET dot == Index(str, <<".">>)
    IN IF dot = 0 THEN 0 ELSE Len(str) - dot

\* ------------------------------------------------ requests and answers

NoErr == <<>>   \* a nil error

\* A request to the exchange with the answer it got: the request's fields as
\* the code fills them (a field the code leaves out is empty), then the
\* client's error (err) and the entries of the response (data).
Request(api, instID) ==
    [api |-> api, InstID |-> instID, InstType |-> "", Ccy |-> "",
     Lever |-> <<>>, MgnMode |-> "", TdMode |-> "",
     Side |-> "", PosSide |-> "", OrdType |-> "", Sz |-> <<>>,
     SlTriggerPx |-> <<>>, SlOrdPx |-> <<>>, TpTriggerPx |-> <<>>, TpOrdPx |-> <<>>,
     AlgoID |-> <<>>, err |-> NoErr, data |-> <<>>]

Answered(req, ans) == [req EXCEPT !.err = ans.err, !.data = ans.data]

\* What a call returns to its caller: a nil result with an error, or a result
\* (an order result, a rendered number in str, a position list, or a balance
\* map as the one element of balance) with a nil error.
NoVal ==
    [orderId |-> "", symbol |-> <<>>, status |-> "", str |-> <<>>,
     positions |-> <<>>, balance |-> <<>>]

\* fmt.Errorf("<prefix>: %w", err)
Wrap(prefix, err) == <<prefix>> \o err

\* ---- the exchange's possible answers, per endpoint

Responded(data) == [err |-> NoErr, data |-> data]

\* the client fails: network, authentication, an error status of the exchange
TransportFailures == {[err |-> <<"request", "failed">>, data |-> <<>>]}

LeverageNotChange == <<"Leverage", "not", "change">>

LeverOf(lev, instID) == IF instID \in DOMAIN lev THEN lev[instID] ELSE 0

\* leverage-set: done, failed, or (the leverage in effect being the one asked
\* for) refused as unchanged
SetLeverageAnswers(lev, instID, leverage) ==
    {Responded(<<>>)} \cup TransportFailures
    \cup (IF LeverOf(lev, instID) = leverage
          THEN {[err |-> <<"59000", ":">> \o LeverageNotChange, data |-> <<>>]}
          ELSE {})

\* instrument metadata: the minimum steps of quantity and of price
InstrumentEntries ==
    {[LotSz |-> <<"1">>, TickSz |-> <<"0", ".", "1">>],
     [LotSz |-> <<"0", ".", "0", "1">>, TickSz |-> <<"0", ".", "0", "0", "0", "1">>]}

GetInstrumentsAnswers ==
    TransportFailures \cup {Responded(<<>>)}
    \cup {Responded(<<i>>) : i \in InstrumentEntries}

\* ------------------------------------------------------ precision cache

\* the cache keys instID+"_lotSz" and instID+"_tickSz"
LotSzKey(instID) == instID \o <<"_", "l", "o", "t", "S", "z">>
TickSzKey(instID) == instID \o <<"_", "t", "i", "c", "k", "S", "z">>

\* getInstrument, the exchange answering ans
getInstrument(instID, ans) ==
    LET call == Answered([Request("GetInstruments", instID) EXCEPT !.InstType = "SWAP"], ans)
    IN IF ans.err # NoErr THEN [call |-> call, inst |-> <<>>, err |-> ans.err]
       ELSE IF Len(ans.data) = 0
            THEN [call |-> call, inst |-> <<>>, err |-> <<"instrument", "not", "found">>]
            ELSE [call |-> call, inst |-> ans.data[1], err |-> NoErr]

\* getLotSzPrecision, were a failed lookup to leave 3 digits in the cache
getLotSzPrecisionCachingFailure(cache, instID, ans) ==
    IF LotSzKey(instID) \in DOMAIN cache
    THEN [calls |-> <<>>, precision |-> cache[LotSzKey(instID)], err |-> NoErr,
          precisions |-> cache]
    ELSE IF getInstrument(instID, ans).err # NoErr
    THEN [calls |-> <<getInstrument(instID, ans).call>>, precision |-> 0,
          err |-> getInstrument(instID, ans).err,
          precisions |-> (LotSzKey(instID) :> 3) @@ cache]
    ELSE [calls |-> <<getInstrument(instID, ans).call>>,
          precision |-> calculatePrecision(getInstrument(instID, ans).inst.LotSz),
          err |-> NoErr,
          precisions |-> (LotSzKey(instID) :>
                             calculatePrecision(getInstrument(instID, ans).inst.LotSz))
                         @@ cache]

\* getLotSzPrecision on cache `cache`: the requests issued, the digit count,
\* the error and the cache afterwards
getLotSzPrecision(cache, instID, ans) ==
    IF LotSzKey(instID) \in DOMAIN cache
    THEN [calls |-> <<>>, precision |-> cache[LotSzKey(instID)], err |-> NoErr,
          precisions |-> cache]
    ELSE LET got == getInstrument(instID, ans)
             precision == calculatePrecision(got.inst.LotSz)
         IN IF got.err # NoErr
            THEN [calls |-> <<got.call>>, precision |-> 0, err |-> got.err,
                  precisions |-> cache]
            ELSE [calls |-> <<got.call>>, precision |-> precision, err |-> NoErr,
                  precisions |-> (LotSzKey(instID) :> precision) @@ cache]

\* getTickSzPrecision, were the digit count taken from the lot size
getTickSzPrecisionOfLot(cache, instID, ans) ==
    IF TickSzKey(instID) \in DOMAIN cache
    THEN [calls |-> <<>>, precision |-> cache[TickSzKey(instID)], err |-> NoErr,
          precisions |-> cache]
    ELSE [getLotSzPrecision(<<>>, instID, ans) EXCEPT
             !.precisions = IF @ = <<>> THEN cache
                            ELSE (TickSzKey(instID) :> @[LotSzKey(instID)]) @@ cache]

getTickSzPrecision(cache, instID, ans) ==
    IF TickSzKey(instID) \in DOMAIN cache
    THEN [calls |-> <<>>, precision |-> cache[TickSzKey(instID)], err |-> NoErr,
          precisions |-> cache]
    ELSE LET got == getInstrument(instID, ans)
             precision == calculatePrecision(got.inst.TickSz)
         IN IF got.err # NoErr
            THEN [calls |-> <<got.call>>, precision |-> 0, err |-> got.err,
                  precisions |-> cache]
            ELSE [calls |-> <<got.call>>, precision |-> precision, err |-> NoErr,
                  precisions |-> (TickSzKey(instID) :> precision) @@ cache]

\* ------------------------------------------------------ numeric formatter

DefaultQuantityPrecision == 3
DefaultPricePrecision == 2

\* FormatQuantity, were it to hand a failed lookup to its caller
FormatQuantityStrict(cache, symbol, quantity, ans) ==
    LET got == getLotSzPrecision(cache, okxSymbol(symbol), ans)
    IN [calls |-> got.calls,
        str |-> IF got.err # NoErr THEN <<>> ELSE FormatFixed(quantity, got.precision),
        err |-> got.err, precisions |-> got.precisions]

FormatQuantity(cache, symbol, quantity, ans) ==
    LET instID == okxSymbol(symbol)
        got == getLotSzPrecision(cache, instID, ans)
        precision == IF got.err # NoErr THEN DefaultQuantityPrecision ELSE got.precision
    IN [calls |-> got.calls, str |-> FormatFixed(quantity, precision), err |-> NoErr,
        precisions |-> got.precisions]

FormatPrice(cache, symbol, price, ans) ==
    LET instID == okxSymbol(symbol)
        got == getTickSzPrecision(cache, instID, ans)
        precision == IF got.err # NoErr THEN DefaultPricePrecision ELSE got.precision
    IN [calls |-> got.calls, str |-> FormatFixed(price, precision), err |-> NoErr,
        precisions |-> got.precisions]

\* ---------------------------------------------------- handler results

\* What a handler leaves behind: the requests it issued (calls), the error
\* and the result it returns, the trader's precision cache and the
\* exchange's leverages afterwards.
Outcome(requests, err, val, cache, lev) ==
    [calls |-> requests, err |-> err, val |-> val, precisions |-> cache, lever |-> lev]

\* `run`, carried out after the requests `before` were issued
After(before, run) == [run EXCEPT !.calls = before \o @]

\* ------------------------------------------------------ leverage manager

\* leverageError, were "leverage unchanged" an error like any other
leverageErrorStrict(err) ==
    IF err # NoErr THEN Wrap("OKX SetLeverage failed", err) ELSE NoErr

\* what SetLeverage returns for the client's error
leverageError(err) ==
    IF err # NoErr
    THEN IF Contains(err, LeverageNotChange) THEN NoErr
         ELSE Wrap("OKX SetLeverage failed", err)
    ELSE NoErr

\* SetLeverage, the exchange (holding leverages lev) answering ans
SetLeverage(cache, lev, symbol, leverage, ans) ==
    Outcome(<<Answered([Request("SetLeverage", okxSymbol(symbol)) EXCEPT
                           !.Lever = NatToDigits(leverage), !.MgnMode = "isolated"],
                       ans)>>,
            leverageError(ans.err),
            NoVal,
            cache,
            IF ans.err = NoErr THEN (okxSymbol(symbol) :> leverage) @@ lev ELSE lev)

\* ------------------------------------------------------ order placer

Long == <<"l", "o", "n", "g">>
Short == <<"s", "h", "o", "r", "t">>

OrderAccepted == [OrdID |-> "ord-1", SCode |-> "0", SMsg |-> ""]
OrderRejected == [OrdID |-> "", SCode |-> "51008", SMsg |-> "insufficient margin"]

PlaceOrderAnswers ==
    TransportFailures
    \cup {Responded(<<>>), Responded(<<OrderAccepted>>), Responded(<<OrderRejected>>),
          Responded(<<OrderRejected, OrderAccepted>>)}

\* orderError, were any accepted entry of the response enough
orderErrorAnyEntry(ans) ==
    IF ans.err # NoErr THEN Wrap("OKX PlaceOrder failed", ans.err)
    ELSE IF Len(ans.data) = 0 THEN <<"OKX PlaceOrder returned no order data">>
    ELSE IF \A i \in 1..Len(ans.data) : ans.data[i].SCode # "0"
         THEN <<"OKX order rejected", ans.data[1].SMsg, ans.data[1].SCode>>
         ELSE NoErr

\* what placeOrder returns for the exchange's answer to the order
orderError(ans) ==
    IF ans.err # NoErr THEN Wrap("OKX PlaceOrder failed", ans.err)
    ELSE IF Len(ans.data) = 0 THEN <<"OKX PlaceOrder returned no order data">>
    ELSE IF ans.data[1].SCode # "0"
         THEN <<"OKX order rejected", ans.data[1].SMsg, ans.data[1].SCode>>
         ELSE NoErr

orderResult(symbol, ans) ==
    IF orderError(ans) # NoErr THEN NoVal
    ELSE [NoVal EXCEPT !.orderId = ans.data[1].OrdID, !.symbol = symbol,
                       !.status = "FILLED"]

\* placeOrder from the formatted quantity on: the request is built and sent
submitOrder(lev, symbol, side, ordType, posSide, fmt, ans) ==
    IF fmt.err # NoErr
    THEN Outcome(fmt.calls, fmt.err, NoVal, fmt.precisions, lev)
    ELSE Outcome(fmt.calls
                 \o <<Answered([Request("PlaceOrder", okxSymbol(symbol)) EXCEPT
                                   !.TdMode = "isolated", !.Side = side,
                                   !.OrdType = ordType, !.Sz = fmt.str,
                                   !.PosSide = posSide],
                               ans)>>,
                 orderError(ans), orderResult(symbol, ans), fmt.precisions, lev)

\* placeOrder; x.instrument and x.order are the exchange's answers to the
\* metadata request (if one is made) and to the order
placeOrder(cache, lev, symbol, side, ordType, posSide, quantity, x) ==
    submitOrder(lev, symbol, side, ordType, posSide,
                FormatQuantity(cache, okxSymbol(symbol), quantity, x.instrument),
                x.order)

\* ------------------------------------------------ contingent-order cancellation

AlgoID(ordType, i) == <<ordType>> \o NatToDigits(i)

\* the exchange lists the first k outstanding conditional orders of a kind
GetAlgoOrderListAnswers(ordType) ==
    TransportFailures
    \cup {Responded([i \in 1..k |-> [AlgoID |-> AlgoID(ordType, i)]]) : k \in 0..MaxListed}

CancelAlgoOrderAnswers == TransportFailures \cup {Responded(<<>>)}

\* cancelPass, were the listing not narrowed to the instrument
cancelPassEveryInstrument(instID, ordType, listed, cancelled) ==
    <<Answered([Request("GetAlgoOrderList", <<>>) EXCEPT
                   !.InstType = "SWAP", !.OrdType = ordType],
               listed)>>
    \o (IF listed.err = NoErr
        THEN [i \in 1..Len(listed.data) |->
                 Answered([Request("CancelAlgoOrder", <<>>) EXCEPT
                              !.AlgoID = listed.data[i].AlgoID],
                          cancelled[i])]
        ELSE <<>>)

\* cancelPass, were it to stop at the first cancel that fails
cancelPassAborting(instID, ordType, listed, cancelled) ==
    <<Answered([Request("GetAlgoOrderList", instID) EXCEPT
                   !.InstType = "SWAP", !.OrdType = ordType],
               listed)>>
    \o (IF listed.err = NoErr
        THEN [i \in {k \in 1..Len(listed.data) :
                        \A j \in 1..(k - 1) : cancelled[j].err = NoErr} |->
                 Answered([Request("CancelAlgoOrder", instID) EXCEPT
                              !.AlgoID = listed.data[i].AlgoID],
                          cancelled[i])]
        ELSE <<>>)

\* one pass of CancelAllOrders: the listing of one kind and, when it
\* succeeded, a cancel per listed order (whose answer is dropped)
cancelPass(instID, ordType, listed, cancelled) ==
    <<Answered([Request("GetAlgoOrderList", instID) EXCEPT
                   !.InstType = "SWAP", !.OrdType = ordType],
               listed)>>
    \o (IF listed.err = NoErr
        THEN [i \in 1..Len(listed.data) |->
                 Answered([Request("CancelAlgoOrder", instID) EXCEPT
                              !.AlgoID = listed.data[i].AlgoID],
                          cancelled[i])]
        ELSE <<>>)

\* CancelAllOrders, were it to return the error of a failed listing
CancelAllOrdersStrict(cache, lev, symbol, x) ==
    Outcome(cancelPass(okxSymbol(symbol), "stop", x.stopList, x.stopCancels)
            \o cancelPass(okxSymbol(symbol), "tp", x.tpList, x.tpCancels),
            IF x.stopList.err # NoErr THEN x.stopList.err ELSE x.tpList.err,
            NoVal, cache, lev)

\* CancelAllOrders; x.stopList, x.tpList answer the two listings and
\* x.stopCancels[i], x.tpCancels[i] the i-th cancel of each pass
CancelAllOrders(cache, lev, symbol, x) ==
    Outcome(cancelPass(okxSymbol(symbol), "stop", x.stopList, x.stopCancels)
            \o cancelPass(okxSymbol(symbol), "tp", x.tpList, x.tpCancels),
            NoErr, NoVal, cache, lev)

\* -------------------------------------------------- position lifecycle

\* openSteps, were the order placed before the leverage is set
openStepsOrderFirst(cancelled, levered, placed) ==
    After(cancelled.calls \o placed.calls, levered)

\* openSteps, were the order placed whatever SetLeverage returned
openStepsWhateverLeverage(cancelled, levered, placed) ==
    After(cancelled.calls \o levered.calls, placed)

\* the rest of an open call once its cancellation pass has run: the order
\* is placed unless setting the leverage failed
openSteps(cancelled, levered, placed) ==
    IF levered.err # NoErr
    THEN After(cancelled.calls, levered)
    ELSE After(cancelled.calls \o levered.calls, placed)

\* OpenLong; x holds the exchange's answers to the requests of the call
OpenLong(cache, lev, symbol, quantity, leverage, x) ==
    openSteps(CancelAllOrders(cache, lev, symbol, x),
              SetLeverage(cache, lev, symbol, leverage, x.setLeverage),
              placeOrder(cache,
                         SetLeverage(cache, lev, symbol, leverage, x.setLeverage).lever,
                         symbol, "buy", "market", Long, quantity, x))

OpenShort(cache, lev, symbol, quantity, leverage, x) ==
    openSteps(CancelAllOrders(cache, lev, symbol, x),
              SetLeverage(cache, lev, symbol, leverage, x.setLeverage),
              placeOrder(cache,
                         SetLeverage(cache, lev, symbol, leverage, x.setLeverage).lever,
                         symbol, "sell", "market", Short, quantity, x))

\* the exchange's position list for one instrument: entries of either side,
\* an amount of 0 among the amounts
PositionEntries(instID) ==
    {[InstID |-> instID, PosSide |-> side, Pos |-> pos] :
        side \in {Long, Short}, pos \in {<<"0">>, <<"2">>, <<"0", ".", "5">>}}

RECURSIVE SeqsUpTo(_, _)
SeqsUpTo(S, n) ==
    IF n = 0 THEN {<<>>}
    ELSE LET shorter == SeqsUpTo(S, n - 1)
         IN shorter \cup {Append(q, e) : q \in {t \in shorter : Len(t) = n - 1}, e \in S}

GetPositionsAnswers(instID) ==
    TransportFailures
    \cup {Responded(list) : list \in SeqsUpTo(PositionEntries(instID), MaxPositions)}

\* the index of the first entry of data whose side is posSide, 0 if none
firstOfSide(data, posSide) ==
    IF \E i \in 1..Len(data) : data[i].PosSide = posSide
    THEN CHOOSE i \in 1..Len(data) :
            /\ data[i].PosSide = posSide
            /\ \A j \in 1..(i - 1) : data[j].PosSide # posSide
    ELSE 0

\* getSpecificPosition: the first entry of the requested side; found is
\* FALSE for the nil position returned when there is none
getSpecificPosition(symbol, posSide, ans) ==
    [call |-> Answered(Request("GetPositions", okxSymbol(symbol)), ans),
     found |-> ans.err = NoErr /\ firstOfSide(ans.data, posSide) # 0,
     pos |-> IF ans.err = NoErr /\ firstOfSide(ans.data, posSide) # 0
             THEN ans.data[firstOfSide(ans.data, posSide)]
             ELSE [InstID |-> <<>>, PosSide |-> <<>>, Pos |-> <<>>],
     err |-> ans.err]

\* a close call with quantity 0, from the position lookup on
closeAll(cache, lev, symbol, side, posSide, got, notFound, x) ==
    IF got.err # NoErr
    THEN Outcome(<<got.call>>, got.err, NoVal, cache, lev)
    ELSE IF ~got.found
    THEN Outcome(<<got.call>>, notFound, NoVal, cache, lev)
    ELSE After(<<got.call>>,
               placeOrder(cache, lev, symbol, side, "market", posSide,
                          parseFloat(got.pos.Pos), x))

CloseLong(cache, lev, symbol, quantity, x) ==
    IF quantity = 0
    THEN closeAll(cache, lev, symbol, "sell", Long,
                  getSpecificPosition(symbol, Long, x.positions),
                  <<"no long position found for", symbol>>, x)
    ELSE placeOrder(cache, lev, symbol, "sell", "market", Long, quantity, x)

CloseShort(cache, lev, symbol, quantity, x) ==
    IF quantity = 0
    THEN closeAll(cache, lev, symbol, "buy", Short,
                  getSpecificPosition(symbol, Short, x.positions),
                  <<"no short position found for", symbol>>, x)
    ELSE placeOrder(cache, lev, symbol, "buy", "market", Short, quantity, x)

\* ------------------------------------------------ contingent-order placement

LowerCase == <<"a", "b", "c", "d", "e", "f", "g", "h", "i", "j", "k", "l", "m",
               "n", "o", "p", "q", "r", "s", "t", "u", "v", "w", "x", "y", "z">>
UpperCase == <<"A", "B", "C", "D", "E", "F", "G", "H", "I", "J", "K", "L", "M",
               "N", "O", "P", "Q", "R", "S", "T", "U", "V", "W", "X", "Y", "Z">>

\* strings.ToLower
ToLower(s) ==
    [i \in 1..Len(s) |->
        IF \E k \in 1..26 : UpperCase[k] = s[i]
        THEN LowerCase[CHOOSE k \in 1..26 : UpperCase[k] = s[i]]
        ELSE s[i]]

AlgoAccepted == [AlgoID |-> <<"stop", "9">>, SCode |-> "0", SMsg |-> ""]
AlgoRejected == [AlgoID |-> <<>>, SCode |-> "51279", SMsg |-> "trigger price invalid"]

PlaceAlgoOrderAnswers ==
    TransportFailures
    \cup {Responded(<<>>), Responded(<<AlgoAccepted>>), Responded(<<AlgoRejected>>),
          Responded(<<AlgoRejected, AlgoAccepted>>)}

\* closingSide, were every position closed by a sell
closingSideSell(posSide) == "sell"

\* the trade side of the order that closes a position of side posSide
closingSide(posSide) == IF posSide = Short THEN "buy" ELSE "sell"

\* the trigger fields of a conditional order of kind ordType
withTrigger(req, ordType, triggerPrice) ==
    IF ordType = "stop"
    THEN [req EXCEPT !.SlTriggerPx = triggerPrice, !.SlOrdPx = <<"-", "1">>]
    ELSE IF ordType = "tp"
    THEN [req EXCEPT !.TpTriggerPx = triggerPrice, !.TpOrdPx = <<"-", "1">>]
    ELSE req

\* algoError, were the status code of the response not looked at
algoErrorTransportOnly(ans) ==
    IF ans.err # NoErr THEN Wrap("OKX PlaceAlgoOrder failed", ans.err)
    ELSE IF Len(ans.data) = 0 THEN <<"OKX PlaceAlgoOrder returned no data">>
    ELSE NoErr

\* what placeAlgoOrder returns for the exchange's answer
algoError(ans) ==
    IF ans.err # NoErr THEN Wrap("OKX PlaceAlgoOrder failed", ans.err)
    ELSE IF Len(ans.data) = 0 THEN <<"OKX PlaceAlgoOrder returned no data">>
    ELSE IF ans.data[1].SCode # "0"
         THEN <<"OKX PlaceAlgoOrder failed", ans.data[1].SMsg, ans.data[1].SCode>>
         ELSE NoErr

placeAlgoOrder(cache, lev, symbol, posSide, ordType, triggerPrice, sz, ans) ==
    Outcome(<<Answered(withTrigger([Request("PlaceAlgoOrder", okxSymbol(symbol)) EXCEPT
                                       !.TdMode = "isolated",
                                       !.Side = closingSide(posSide),
                                       !.PosSide = posSide, !.OrdType = ordType,
                                       !.Sz = sz],
                                   ordType, triggerPrice),
                       ans)>>,
            algoError(ans), NoVal, cache, lev)

\* SetStopLoss and SetTakeProfit once quantity and price are formatted (the
\* error of the price's formatting is dropped)
setContingent(lev, symbol, posSide, ordType, qty, px, ans) ==
    IF qty.err # NoErr
    THEN Outcome(qty.calls, qty.err, NoVal, qty.precisions, lev)
    ELSE After(qty.calls \o px.calls,
               placeAlgoOrder(px.precisions, lev, symbol, posSide, ordType,
                              px.str, qty.str, ans))

\* SetStopLoss; x.instrument and x.instrumentPx answer the metadata request of
\* the quantity and of the price (if made), x.algo the conditional order
SetStopLoss(cache, lev, symbol, positionSide, quantity, stopPrice, x) ==
    setContingent(lev, symbol, ToLower(positionSide), "stop",
        FormatQuantity(cache, okxSymbol(symbol), quantity, x.instrument),
        FormatPrice(FormatQuantity(cache, okxSymbol(symbol), quantity, x.instrument).precisions,
                    okxSymbol(symbol), stopPrice, x.instrumentPx),
        x.algo)

SetTakeProfit(cache, lev, symbol, positionSide, quantity, takeProfitPrice, x) ==
    setContingent(lev, symbol, ToLower(positionSide), "tp",
        FormatQuantity(cache, okxSymbol(symbol), quantity, x.instrument),
        FormatPrice(FormatQuantity(cache, okxSymbol(symbol), quantity, x.instrument).precisions,
                    okxSymbol(symbol), takeProfitPrice, x.instrumentPx),
        x.algo)

\* ------------------------------------------------------------ inputs

BTCUSDT == <<"B", "T", "C">> \o USDT
ETH == <<"E", "T", "H">>

ETHUSDT == ETH \o USDT

OpenCalls == {"OpenLong", "OpenShort"}
CloseCalls == {"CloseLong", "CloseShort"}

Symbols == {BTCUSDT, ETHUSDT, ETH}
Leverages == {5, 10}
Quantities == {parseFloat(<<"1", ".", "5">>)}
Amounts == {parseFloat(<<"1", ".", "2", "3", "4", "5", "6">>),
            parseFloat(<<"0", ".", "5">>), parseFloat(<<"2">>)}
Prices == {parseFloat(<<"9", "7", ".", "1", "2", "5">>)}
PositionSides == {Long, Short, <<"L", "O", "N", "G">>, <<"S", "h", "o", "r", "t">>}

RECURSIVE Concat(_)
Concat(parts) == IF parts = <<>> THEN <<>> ELSE Head(parts) \o Concat(Tail(parts))

\* the symbols the translation is tried on: every string of at most
\* MaxParts of these parts
SymbolParts == {<<"B", "T", "C">>, USDT, <<"-">>, <<"S", "W", "A", "P">>}
SymbolInputs == {Concat(parts) : parts \in SeqsUpTo(SymbolParts, MaxParts)}

\* the answers the exchange can give to the requests of a cancellation pass
CancelAnswers ==
    UNION {{[stopList |-> sl, stopCancels |-> sc, tpList |-> tl, tpCancels |-> tc] :
               sc \in [1..Len(sl.data) -> CancelAlgoOrderAnswers],
               tc \in [1..Len(tl.data) -> CancelAlgoOrderAnswers]} :
           sl \in GetAlgoOrderListAnswers("stop"), tl \in GetAlgoOrderListAnswers("tp")}

\* ------------------------------------------------------ account reader

\* the account records the exchange answers GetAccount with
AccountEntries ==
    {[TotalEq |-> eq, Upl |-> upl, AvailEq |-> <<"8", "0", "0">>] :
        eq \in {<<"1", "0", "0", "0">>, <<"2", "0", ".", "5">>},
        upl \in {<<"5", "0">>, <<"-", "0", ".", "2", "5">>, <<>>}}

GetAccountAnswers ==
    TransportFailures
    \cup {Responded(list) : list \in SeqsUpTo(AccountEntries, MaxAccounts)}

\* GetBalance, were the wallet balance the equity itself
GetBalanceEquity(cache, lev, ans) ==
    Outcome(<<Answered([Request("GetAccount", <<>>) EXCEPT !.Ccy = "USDT"], ans)>>,
            IF ans.err # NoErr THEN Wrap("OKX GetBalance failed", ans.err)
            ELSE IF Len(ans.data) = 0 THEN <<"OKX GetBalance: no account data returned">>
            ELSE NoErr,
            IF ans.err # NoErr \/ Len(ans.data) = 0 THEN NoVal
            ELSE [NoVal EXCEPT !.balance =
                     <<[totalWalletBalance |-> parseFloat(ans.data[1].TotalEq),
                        availableBalance |-> parseFloat(ans.data[1].AvailEq),
                        totalUnrealizedProfit |-> parseFloat(ans.data[1].Upl)]>>],
            cache, lev)

GetBalance(cache, lev, ans) ==
    LET call == Answered([Request("GetAccount", <<>>) EXCEPT !.Ccy = "USDT"], ans)
    IN IF ans.err # NoErr
       THEN Outcome(<<call>>, Wrap("OKX GetBalance failed", ans.err), NoVal, cache, lev)
       ELSE IF Len(ans.data) = 0
       THEN Outcome(<<call>>, <<"OKX GetBalance: no account data returned">>,
                    NoVal, cache, lev)
       ELSE Outcome(<<call>>, NoErr,
                    [NoVal EXCEPT !.balance =
                        <<[totalWalletBalance |-> parseFloat(ans.data[1].TotalEq)
                                                  - parseFloat(ans.data[1].Upl),
                           availableBalance |-> parseFloat(ans.data[1].AvailEq),
                           totalUnrealizedProfit |-> parseFloat(ans.data[1].Upl)]>>],
                    cache, lev)

\* the entries of the exchange's list of swap positions, over all instruments
SwapPositionEntries ==
    {[InstID |-> okxSymbol(symbol), PosSide |-> side, Pos |-> pos,
      AvgPx |-> <<"9", "6">>, MarkPx |-> <<"9", "7", ".", "5">>, Upl |-> <<"3">>,
      Lever |-> <<"5">>, LiqPx |-> <<"8", "0">>] :
        symbol \in {BTCUSDT, ETHUSDT}, side \in {Long, Short},
        pos \in {<<"0">>, <<"0", ".", "0">>, <<"2", ".", "5">>, <<"-", "1">>}}

GetAllPositionsAnswers ==
    TransportFailures
    \cup {Responded(list) : list \in SeqsUpTo(SwapPositionEntries, MaxPositions)}

\* the map GetPositions builds of one entry
posMap(pos) ==
    [symbol |-> standardSymbol(pos.InstID), side |-> pos.PosSide,
     positionAmt |-> parseFloat(pos.Pos), entryPrice |-> parseFloat(pos.AvgPx),
     markPrice |-> parseFloat(pos.MarkPx), unRealizedProfit |-> parseFloat(pos.Upl),
     leverage |-> parseFloat(pos.Lever), liquidationPrice |-> parseFloat(pos.LiqPx)]

\* GetPositions, were the empty positions listed too
GetPositionsUnfiltered(cache, lev, ans) ==
    Outcome(<<Answered([Request("GetPositions", <<>>) EXCEPT !.InstType = "SWAP"], ans)>>,
            IF ans.err # NoErr THEN Wrap("OKX GetPositions failed", ans.err) ELSE NoErr,
            IF ans.err # NoErr THEN NoVal
            ELSE [NoVal EXCEPT !.positions = [i \in 1..Len(ans.data) |-> posMap(ans.data[i])]],
            cache, lev)

GetPositions(cache, lev, ans) ==
    LET call == Answered([Request("GetPositions", <<>>) EXCEPT !.InstType = "SWAP"], ans)
        open == SelectSeq(ans.data, LAMBDA pos : parseFloat(pos.Pos) # 0)
    IN IF ans.err # NoErr
       THEN Outcome(<<call>>, Wrap("OKX GetPositions failed", ans.err), NoVal, cache, lev)
       ELSE Outcome(<<call>>, NoErr,
                    [NoVal EXCEPT !.positions = [i \in 1..Len(open) |-> posMap(open[i])]],
                    cache, lev)

\* ------------------------------------------------------------- state

Idle ==
    [name |-> "", symbol |-> <<>>, positionSide |-> <<>>, quantity |-> 0,
     price |-> 0, leverage |-> 0]

\* a caller that is in no call
IdleThread ==
    [pc |-> "idle", name |-> "", symbol |-> <<>>, instID |-> <<>>, precision |-> 0,
     quantity |-> 0, leverage |-> 0, err |-> NoErr]

Init ==
    /\ threads = [t \in 1..NumCallers |-> IdleThread]
    /\ precisions = <<>>
    /\ lever = <<>>
    /\ op = Idle
    /\ calls = <<>>
    /\ ret = [err |-> NoErr, val |-> NoVal]

\* the state after the call `call` that ran as `run`
Returned(call, run) ==
    /\ op' = call
    /\ calls' = run.calls
    /\ ret' = [err |-> run.err, val |-> run.val]
    /\ precisions' = run.precisions
    /\ lever' = run.lever
    /\ UNCHANGED threads

\* the caller takes the result; the trader is ready for the next call
Return ==
    /\ op # Idle
    /\ op' = Idle
    /\ calls' = <<>>
    /\ ret' = [err |-> NoErr, val |-> NoVal]
    /\ UNCHANGED <<precisions, lever, threads>>

\* ------------------------------------------------------------ actions

SetLeverageCall(symbols, leverages) ==
    /\ op = Idle
    /\ \E symbol \in symbols, leverage \in leverages :
       \E ans \in SetLeverageAnswers(lever, okxSymbol(symbol), leverage) :
          Returned([Idle EXCEPT !.name = "SetLeverage", !.symbol = symbol,
                                !.leverage = leverage],
                   SetLeverage(precisions, lever, symbol, leverage, ans))

CancelAllOrdersCall(symbols) ==
    /\ op = Idle
    /\ \E symbol \in symbols, x \in CancelAnswers :
          Returned([Idle EXCEPT !.name = "CancelAllOrders", !.symbol = symbol],
                   CancelAllOrders(precisions, lever, symbol, x))

OpenLongCall(symbols, quantities) ==
    /\ op = Idle
    /\ \E symbol \in symbols, quantity \in quantities, leverage \in Leverages :
       \E c \in CancelAnswers, ins \in GetInstrumentsAnswers, ord \in PlaceOrderAnswers :
       \E lv \in SetLeverageAnswers(lever, okxSymbol(symbol), leverage) :
          Returned([Idle EXCEPT !.name = "OpenLong", !.symbol = symbol,
                                !.quantity = quantity, !.leverage = leverage],
                   OpenLong(precisions, lever, symbol, quantity, leverage,
                            c @@ [setLeverage |-> lv, instrument |-> ins, order |-> ord]))

OpenShortCall(symbols, quantities) ==
    /\ op = Idle
    /\ \E symbol \in symbols, quantity \in quantities, leverage \in Leverages :
       \E c \in CancelAnswers, ins \in GetInstrumentsAnswers, ord \in PlaceOrderAnswers :
       \E lv \in SetLeverageAnswers(lever, okxSymbol(symbol), leverage) :
          Returned([Idle EXCEPT !.name = "OpenShort", !.symbol = symbol,
                                !.quantity = quantity, !.leverage = leverage],
                   OpenShort(precisions, lever, symbol, quantity, leverage,
                             c @@ [setLeverage |-> lv, instrument |-> ins, order |-> ord]))

CloseLongCall(symbols, quantities) ==
    /\ op = Idle
    /\ \E symbol \in symbols, quantity \in quantities :
       \E pos \in GetPositionsAnswers(okxSymbol(symbol)),
          ins \in GetInstrumentsAnswers, ord \in PlaceOrderAnswers :
          Returned([Idle EXCEPT !.name = "CloseLong", !.symbol = symbol,
                                !.quantity = quantity],
                   CloseLong(precisions, lever, symbol, quantity,
                             [positions |-> pos, instrument |-> ins, order |-> ord]))

CloseShortCall(symbols, quantities) ==
    /\ op = Idle
    /\ \E symbol \in symbols, quantity \in quantities :
       \E pos \in GetPositionsAnswers(okxSymbol(symbol)),
          ins \in GetInstrumentsAnswers, ord \in PlaceOrderAnswers :
          Returned([Idle EXCEPT !.name = "CloseShort", !.symbol = symbol,
                                !.quantity = quantity],
                   CloseShort(precisions, lever, symbol, quantity,
                              [positions |-> pos, instrument |-> ins, order |-> ord]))

SetStopLossCall(symbols) ==
    /\ op = Idle
    /\ \E symbol \in symbols, positionSide \in PositionSides,
          quantity \in Quantities, stopPrice \in Prices :
       \E ins \in GetInstrumentsAnswers, insPx \in GetInstrumentsAnswers,
          alg \in PlaceAlgoOrderAnswers :
          Returned([Idle EXCEPT !.name = "SetStopLoss", !.symbol = symbol,
                                !.positionSide = positionSide,
                                !.quantity = quantity, !.price = stopPrice],
                   SetStopLoss(precisions, lever, symbol, positionSide, quantity, stopPrice,
                               [instrument |-> ins, instrumentPx |-> insPx, algo |-> alg]))

SetTakeProfitCall(symbols) ==
    /\ op = Idle
    /\ \E symbol \in symbols, positionSide \in PositionSides,
          quantity \in Quantities, takeProfitPrice \in Prices :
       \E ins \in GetInstrumentsAnswers, insPx \in GetInstrumentsAnswers,
          alg \in PlaceAlgoOrderAnswers :
          Returned([Idle EXCEPT !.name = "SetTakeProfit", !.symbol = symbol,
                                !.positionSide = positionSide,
                                !.quantity = quantity, !.price = takeProfitPrice],
                   SetTakeProfit(precisions, lever, symbol, positionSide, quantity,
                                 takeProfitPrice,
                                 [instrument |-> ins, instrumentPx |-> insPx, algo |-> alg]))

\* a formatter's (string, error) as the outcome of a public call
Formatted(lev, fmt) ==
    Outcome(fmt.calls, fmt.err, [NoVal EXCEPT !.str = fmt.str], fmt.precisions, lev)

FormatQuantityCall(symbols) ==
    /\ op = Idle
    /\ \E symbol \in symbols, quantity \in Amounts, ins \in GetInstrumentsAnswers :
          Returned([Idle EXCEPT !.name = "FormatQuantity", !.symbol = symbol,
                                !.quantity = quantity],
                   Formatted(lever, FormatQuantity(precisions, symbol, quantity, ins)))

FormatPriceCall(symbols) ==
    /\ op = Idle
    /\ \E symbol \in symbols, price \in Amounts, ins \in GetInstrumentsAnswers :
          Returned([Idle EXCEPT !.name = "FormatPrice", !.symbol = symbol,
                                !.price = price],
                   Formatted(lever, FormatPrice(precisions, symbol, price, ins)))

GetBalanceCall ==
    /\ op = Idle
    /\ \E ans \in GetAccountAnswers :
          Returned([Idle EXCEPT !.name = "GetBalance"],
                   GetBalance(precisions, lever, ans))

GetPositionsCall ==
    /\ op = Idle
    /\ \E ans \in GetAllPositionsAnswers :
          Returned([Idle EXCEPT !.name = "GetPositions"],
                   GetPositions(precisions, lever, ans))

\* the symbol translation, tried on its own: a symbol is translated to its
\* instrument ID, and the instrument ID back
TranslateSymbol ==
    /\ op = Idle
    /\ \E symbol \in SymbolInputs :
          Returned([Idle EXCEPT !.name = "okxSymbol", !.symbol = symbol],
                   Outcome(<<>>, NoErr, [NoVal EXCEPT !.str = okxSymbol(symbol)],
                           precisions, lever))

TranslateBack ==
    /\ op.name = "okxSymbol"
    /\ Returned([op EXCEPT !.name = "standardSymbol"],
                Outcome(<<>>, NoErr, [NoVal EXCEPT !.str = standardSymbol(ret.val.str)],
                        precisions, lever))

\* The trader opening positions on one symbol, setting its leverage and
\* cancelling its conditional orders, one call after the other.
Next ==
    \/ SetLeverageCall({BTCUSDT}, Leverages)
    \/ CancelAllOrdersCall({BTCUSDT})
    \/ OpenLongCall({BTCUSDT}, Quantities)
    \/ OpenShortCall({BTCUSDT}, Quantities)
    \/ Return

Spec == Init /\ [][Next]_vars

\* The leverage of several symbols being set, two of them naming one instrument.
NextLeverage ==
    \/ SetLeverageCall(Symbols, Leverages \cup {20})
    \/ Return

SpecLeverage == Init /\ [][NextLeverage]_vars

\* Positions being closed.
NextClose ==
    \/ CloseLongCall({BTCUSDT, ETH}, Quantities \cup {0})
    \/ CloseShortCall({BTCUSDT, ETH}, Quantities \cup {0})
    \/ Return

SpecClose == Init /\ [][NextClose]_vars

\* Stop-loss and take-profit orders being placed.
NextContingent ==
    \/ SetStopLossCall({BTCUSDT})
    \/ SetTakeProfitCall({BTCUSDT})
    \/ Return

SpecContingent == Init /\ [][NextContingent]_vars

\* Quantities and prices being formatted by the trader's callers.
NextFormat ==
    \/ FormatQuantityCall(Symbols)
    \/ FormatPriceCall(Symbols)
    \/ Return

SpecFormat == Init /\ [][NextFormat]_vars

\* Symbols being translated.
NextSymbol ==
    \/ TranslateSymbol
    \/ TranslateBack
    \/ Return

SpecSymbol == Init /\ [][NextSymbol]_vars

\* ---- callers running at once: a formatter's precision lookup, one step
\* per access to the cache and per request to the exchange

\* the cache key of the lookup a caller is in
KeyOf(th) ==
    IF th.name = "FormatQuantity" THEN LotSzKey(th.instID) ELSE TickSzKey(th.instID)

\* FormatQuantity / FormatPrice entered: instID := okxSymbol(symbol)
LookupBegin(t, symbols) ==
    /\ threads[t].pc = "idle"
    /\ \E name \in {"FormatQuantity", "FormatPrice"}, symbol \in symbols :
          threads' = [threads EXCEPT ![t] = [IdleThread EXCEPT !.pc = "load",
                                                !.name = name, !.instID = okxSymbol(symbol)]]
    /\ UNCHANGED <<precisions, lever, op, calls, ret>>

\* t.precisions.Load(key): a hit returns the cached digit count
LookupLoad(t) ==
    /\ threads[t].pc = "load"
    /\ threads' = [threads EXCEPT ![t] =
                      IF KeyOf(threads[t]) \in DOMAIN precisions
                      THEN [threads[t] EXCEPT !.pc = "done",
                                              !.precision = precisions[KeyOf(threads[t])]]
                      ELSE [threads[t] EXCEPT !.pc = "fetch"]]
    /\ UNCHANGED <<precisions, lever, op, calls, ret>>

\* getInstrument and calculatePrecision; a failed lookup makes the formatter
\* take its default
LookupFetch(t) ==
    /\ threads[t].pc = "fetch"
    /\ \E ans \in GetInstrumentsAnswers :
          threads' = [threads EXCEPT ![t] =
              IF getInstrument(threads[t].instID, ans).err # NoErr
              THEN [threads[t] EXCEPT
                       !.pc = "done",
                       !.err = getInstrument(threads[t].instID, ans).err,
                       !.precision = IF threads[t].name = "FormatQuantity"
                                     THEN DefaultQuantityPrecision
                                     ELSE DefaultPricePrecision]
              ELSE [threads[t] EXCEPT
                       !.pc = "store",
                       !.precision = calculatePrecision(
                           IF threads[t].name = "FormatQuantity"
                           THEN getInstrument(threads[t].instID, ans).inst.LotSz
                           ELSE getInstrument(threads[t].instID, ans).inst.TickSz)]]
    /\ UNCHANGED <<precisions, lever, op, calls, ret>>

\* t.precisions.Store(key, precision)
LookupStore(t) ==
    /\ threads[t].pc = "store"
    /\ precisions' = [k \in DOMAIN precisions \cup {KeyOf(threads[t])} |->
                         IF k = KeyOf(threads[t]) THEN threads[t].precision
                         ELSE precisions[k]]
    /\ threads' = [threads EXCEPT ![t].pc = "done"]
    /\ UNCHANGED <<lever, op, calls, ret>>

\* the formatter returns with the digit count it resolved
LookupReturn(t) ==
    /\ threads[t].pc = "done"
    /\ threads[t].name \in {"FormatQuantity", "FormatPrice"}
    /\ threads' = [threads EXCEPT ![t] = IdleThread]
    /\ UNCHANGED <<precisions, lever, op, calls, ret>>

\* Formatters called by several callers at once, for one symbol.
NextCache ==
    \E t \in 1..NumCallers :
        \/ LookupBegin(t, {BTCUSDT})
        \/ LookupLoad(t)
        \/ LookupFetch(t)
        \/ LookupStore(t)
        \/ LookupReturn(t)

SpecCache == Init /\ [][NextCache]_vars

\* ---- callers running at once: an open call, one step per part of the
\* call that another caller's requests can come between

\* OpenLong / OpenShort entered
OpenBegin(t, symbols) ==
    /\ threads[t].pc = "idle"
    /\ \E name \in OpenCalls, symbol \in symbols, quantity \in Quantities,
          leverage \in Leverages :
          threads' = [threads EXCEPT ![t] =
                         [IdleThread EXCEPT !.pc = "cancel", !.name = name,
                                            !.symbol = symbol, !.quantity = quantity,
                                            !.leverage = leverage]]
    /\ UNCHANGED <<precisions, lever, op, calls, ret>>

\* the cancellation pass: its requests touch neither the leverage nor the
\* cache, and what it returns is logged, no more
OpenCancel(t) ==
    /\ threads[t].pc = "cancel"
    /\ threads' = [threads EXCEPT ![t].pc = "leverage"]
    /\ UNCHANGED <<precisions, lever, op, calls, ret>>

\* SetLeverage: the request, the exchange taking the leverage when it
\* answers with success; an error ends the call
OpenSetLeverage(t) ==
    /\ threads[t].pc = "leverage"
    /\ \E ans \in SetLeverageAnswers(lever, okxSymbol(threads[t].symbol),
                                      threads[t].leverage) :
          /\ lever' = SetLeverage(precisions, lever, threads[t].symbol,
                                  threads[t].leverage, ans).lever
          /\ threads' = [threads EXCEPT
                ![t].err = leverageError(ans.err),
                ![t].pc = IF leverageError(ans.err) # NoErr THEN "done" ELSE "order"]
    /\ UNCHANGED <<precisions, op, calls, ret>>

\* placeOrder: the quantity rendered, the market order submitted
OpenPlaceOrder(t) ==
    /\ threads[t].pc = "order"
    /\ \E ins \in GetInstrumentsAnswers, ord \in PlaceOrderAnswers :
          /\ precisions' = placeOrder(precisions, lever, threads[t].symbol,
                                      IF threads[t].name = "OpenLong" THEN "buy" ELSE "sell",
                                      "market",
                                      IF threads[t].name = "OpenLong" THEN Long ELSE Short,
                                      threads[t].quantity,
                                      [instrument |-> ins, order |-> ord]).precisions
          /\ threads' = [threads EXCEPT ![t].err = orderError(ord), ![t].pc = "done"]
    /\ UNCHANGED <<lever, op, calls, ret>>

OpenReturn(t) ==
    /\ threads[t].pc = "done"
    /\ threads[t].name \in OpenCalls
    /\ threads' = [threads EXCEPT ![t] = IdleThread]
    /\ UNCHANGED <<precisions, lever, op, calls, ret>>

\* Positions opened on one symbol by several callers at once.
NextOpen ==
    \E t \in 1..NumCallers :
        \/ OpenBegin(t, {BTCUSDT})
        \/ OpenCancel(t)
        \/ OpenSetLeverage(t)
        \/ OpenPlaceOrder(t)
        \/ OpenReturn(t)

SpecOpen == Init /\ [][NextOpen]_vars

\* The trader cancelling, opening and closing on several symbols.
NextFrame ==
    \/ CancelAllOrdersCall(Symbols)
    \/ OpenLongCall({ETH}, Quantities)
    \/ OpenShortCall({ETH}, Quantities)
    \/ CloseLongCall({ETH}, Quantities \cup {0})
    \/ CloseShortCall({ETH}, Quantities \cup {0})
    \/ Return

SpecFrame == Init /\ [][NextFrame]_vars

\* The account being read: balance and position list.
NextAccount ==
    \/ GetBalanceCall
    \/ GetPositionsCall
    \/ Return

SpecAccount == Init /\ [][NextAccount]_vars

\* ============================================================ properties

\* the positions in `calls` of the requests to endpoint api
RequestsTo(api) == {i \in 1..Len(calls) : calls[i].api = api}


\* C1: every metadata request made while building an order or a conditional
\* order asks for the precision of the instrument the order is sent for (the
\* precision is looked up for the request's own instrument ID, no other).
C1_PrecisionOfOwnInstrument ==
    \A i \in RequestsTo("GetInstruments") :
        \A j \in RequestsTo("PlaceOrder") \cup RequestsTo("PlaceAlgoOrder") :
            calls[i].InstID = calls[j].InstID

\* C2: translating a symbol that ends in "USDT" to its instrument ID and back
\* gives the symbol again.
C2_RoundTrip ==
    (op.name = "standardSymbol" /\ HasSuffix(op.symbol, USDT))
        => ret.val.str = op.symbol

\* C3: in an open call the two listings and every cancel come first, then the
\* leverage-set request, then the market order; no order is submitted before
\* the leverage-set request of the call.
C3_OpenCallOrder ==
    op.name \in OpenCalls =>
        /\ \A k \in RequestsTo("SetLeverage") :
              /\ Cardinality({i \in RequestsTo("GetAlgoOrderList") : i < k}) = 2
              /\ \A i \in RequestsTo("GetAlgoOrderList") \cup RequestsTo("CancelAlgoOrder") :
                    i < k
        /\ \A j \in RequestsTo("PlaceOrder") :
              \E k \in RequestsTo("SetLeverage") : k < j

C3_Witness ==
    /\ op.name = "OpenLong"
    /\ RequestsTo("CancelAlgoOrder") # {}
    /\ RequestsTo("PlaceOrder") # {}

\* C4: a close call with quantity 0 returns the not-found error and submits
\* no order when the symbol has no position of the side (no entry of the side
\* with an amount other than 0 in the exchange's list); when it has one, of
\* size q, the call submits exactly one market order that closes the side
\* (sell for long, buy for short), of quantity q (q rendered at the precision
\* the formatter resolved).
C4_CloseAll ==
    (op.name \in CloseCalls /\ op.quantity = 0 /\ calls[1].err = NoErr) =>
        LET side == IF op.name = "CloseLong" THEN Long ELSE Short
            listed == calls[1].data
            ofSide == {i \in 1..Len(listed) :
                          listed[i].PosSide = side /\ parseFloat(listed[i].Pos) # 0}
            first == CHOOSE i \in ofSide : \A j \in ofSide : i <= j
            key == LotSzKey(okxSymbol(okxSymbol(op.symbol)))
            digits == IF key \in DOMAIN precisions THEN precisions[key]
                      ELSE DefaultQuantityPrecision
        IN IF ofSide = {}
           THEN /\ ret.err = IF side = Long
                             THEN <<"no long position found for", op.symbol>>
                             ELSE <<"no short position found for", op.symbol>>
                /\ RequestsTo("PlaceOrder") = {}
           ELSE /\ Cardinality(RequestsTo("PlaceOrder")) = 1
                /\ \A j \in RequestsTo("PlaceOrder") :
                      /\ calls[j].InstID = okxSymbol(op.symbol)
                      /\ calls[j].OrdType = "market"
                      /\ calls[j].Side = IF side = Long THEN "sell" ELSE "buy"
                      /\ calls[j].PosSide = side
                      /\ calls[j].Sz = FormatFixed(parseFloat(listed[first].Pos), digits)

\* C5: a SetLeverage(sym, N) that succeeds leaves the exchange holding N for
\* the instrument; a SetLeverage(sym, N) made when the exchange holds N
\* already (the second of two in a row) and answered "leverage unchanged"
\* returns success; an answer that is any other failure is returned as an
\* error.
C5_SetLeverageTwice ==
    [][(op = Idle /\ op'.name = "SetLeverage") =>
          /\ ret'.err = NoErr => LeverOf(lever', okxSymbol(op'.symbol)) = op'.leverage
          /\ (/\ LeverOf(lever, okxSymbol(op'.symbol)) = op'.leverage
              /\ Contains(calls'[1].err, LeverageNotChange))
                 => ret'.err = NoErr
          /\ (calls'[1].err # NoErr /\ ~Contains(calls'[1].err, LeverageNotChange))
                 => ret'.err # NoErr]_vars

C5_Witness ==
    /\ op.name = "SetLeverage"
    /\ op.symbol = ETH
    /\ Contains(calls[1].err, LeverageNotChange)
    /\ ret.err = NoErr

\* C6: the cancellation pass makes both listings, and after each listing that
\* succeeded it issues a cancel for every order listed, in order, whatever
\* the other listing and the earlier cancels were answered.
C6_CancelNeverAborts ==
    op.name \in OpenCalls \cup {"CancelAllOrders"} =>
        /\ {calls[i].OrdType : i \in RequestsTo("GetAlgoOrderList")} = {"stop", "tp"}
        /\ \A i \in RequestsTo("GetAlgoOrderList") :
              calls[i].err = NoErr =>
                 \A k \in 1..Len(calls[i].data) :
                    /\ i + k <= Len(calls)
                    /\ calls[i + k].api = "CancelAlgoOrder"
                    /\ calls[i + k].InstID = calls[i].InstID
                    /\ calls[i + k].AlgoID = calls[i].data[k].AlgoID

C6_Witness ==
    /\ op.name = "CancelAllOrders"
    /\ Len(calls) = 4
    /\ calls[1].err # NoErr
    /\ calls[2].api = "GetAlgoOrderList" /\ Len(calls[2].data) = 2
    /\ calls[3].err # NoErr
    /\ calls[4].api = "CancelAlgoOrder" /\ calls[4].AlgoID = calls[2].data[2].AlgoID

\* C7: CancelAllOrders returns success whatever its listings and cancels were
\* answered; an open call always goes on to the leverage-set request and,
\* when that succeeds, to the market order.
C7_CancelNeverBlocks ==
    /\ op.name = "CancelAllOrders" => ret.err = NoErr
    /\ op.name \in OpenCalls =>
          /\ Cardinality(RequestsTo("SetLeverage")) = 1
          /\ \A k \in RequestsTo("SetLeverage") :
                (calls[k].err = NoErr \/ Contains(calls[k].err, LeverageNotChange))
                   => \E j \in RequestsTo("PlaceOrder") : k < j

C7_Witness ==
    /\ op.name = "OpenShort"
    /\ calls[1].api = "GetAlgoOrderList" /\ calls[1].err # NoErr
    /\ \E i \in RequestsTo("CancelAlgoOrder") : calls[i].err # NoErr
    /\ RequestsTo("PlaceOrder") # {}

\* C8: the conditional order of SetStopLoss and SetTakeProfit closes the
\* protected side: position side "long" in any letter case gives a sell,
\* "short" a buy, and the request carries the position side in lower case.
C8_ClosingSide ==
    \A i \in RequestsTo("PlaceAlgoOrder") :
        /\ op.positionSide \in {Long, <<"L", "O", "N", "G">>}
              => (calls[i].Side = "sell" /\ calls[i].PosSide = Long)
        /\ op.positionSide \in {Short, <<"S", "h", "o", "r", "t">>}
              => (calls[i].Side = "buy" /\ calls[i].PosSide = Short)

C8_Witness ==
    /\ op.name = "SetStopLoss"
    /\ op.positionSide = <<"S", "h", "o", "r", "t">>
    /\ \E i \in RequestsTo("PlaceAlgoOrder") :
          calls[i].Side = "buy" /\ calls[i].SlTriggerPx # <<>>

\* C9: a call that submits a market order returns an order result (status
\* FILLED, the caller's symbol) exactly when the request succeeded, the
\* response holds an entry and the first entry's status code is "0";
\* otherwise it returns an error and no result.
C9_OrderResult ==
    \A i \in RequestsTo("PlaceOrder") :
        IF calls[i].err = NoErr /\ Len(calls[i].data) >= 1 /\ calls[i].data[1].SCode = "0"
        THEN /\ ret.err = NoErr
             /\ ret.val = [NoVal EXCEPT !.orderId = calls[i].data[1].OrdID,
                                        !.symbol = op.symbol, !.status = "FILLED"]
        ELSE /\ ret.err # NoErr
             /\ ret.val = NoVal

C9_Witness ==
    /\ op.name = "CloseShort"
    /\ op.symbol = ETH
    /\ ret.val.status = "FILLED"
    /\ ret.val.symbol = ETH

\* C10: FormatQuantity and FormatPrice return a string and no error whatever
\* the metadata lookup gives; when the lookup fails the string has 3 (price:
\* 2) decimal digits, otherwise as many as the resolved digit count.
C10_FormatNeverFails ==
    op.name \in {"FormatQuantity", "FormatPrice"} =>
        LET key == IF op.name = "FormatQuantity" THEN LotSzKey(okxSymbol(op.symbol))
                   ELSE TickSzKey(okxSymbol(op.symbol))
            failed == \E i \in RequestsTo("GetInstruments") :
                         calls[i].err # NoErr \/ Len(calls[i].data) = 0
        IN /\ ret.err = NoErr
           /\ ret.val.str # <<>>
           /\ failed => Decimals(ret.val.str) = IF op.name = "FormatQuantity" THEN 3 ELSE 2
           /\ ~failed => (key \in DOMAIN precisions
                          /\ Decimals(ret.val.str) = precisions[key])

C10_Witness ==
    /\ op.name = "FormatQuantity"
    /\ \E i \in RequestsTo("GetInstruments") : calls[i].err # NoErr
    /\ ret.val.str = <<"1", ".", "2", "3", "5">>

\* C11: GetPositions returns the entries of the exchange's list whose amount
\* is not 0, in the order received and each exactly once, none of amount 0,
\* each under the symbol whose instrument ID the entry carries.
C11_OpenPositionsInOrder ==
    (op.name = "GetPositions" /\ calls[1].err = NoErr) =>
        LET listed == calls[1].data
            kept == {i \in 1..Len(listed) : parseFloat(listed[i].Pos) # 0}
            nth(k) == CHOOSE i \in kept : Cardinality({j \in kept : j < i}) = k - 1
            got == ret.val.positions
        IN /\ ret.err = NoErr
           /\ Len(got) = Cardinality(kept)
           /\ \A k \in 1..Len(got) :
                 /\ got[k].positionAmt # 0
                 /\ got[k].positionAmt = parseFloat(listed[nth(k)].Pos)
                 /\ got[k].side = listed[nth(k)].PosSide
                 /\ HasSuffix(got[k].symbol, USDT)
                 /\ okxSymbol(got[k].symbol) = listed[nth(k)].InstID

C11_Witness ==
    /\ op.name = "GetPositions"
    /\ Len(calls[1].data) = 2
    /\ calls[1].data[1].Pos = <<"0">>
    /\ Len(ret.val.positions) = 1
    /\ ret.val.positions[1].symbol = ETHUSDT
    /\ ret.val.positions[1].side = Short
    /\ ret.val.positions[1].positionAmt = parseFloat(<<"2", ".", "5">>)

\* C12: GetBalance returns an error and no balance when the exchange answers
\* with no account record; when it answers with records, the balance is
\* totalWalletBalance = totalEq - upl, availableBalance = availEq and
\* totalUnrealizedProfit = upl of the first record.
C12_BalanceOfFirstRecord ==
    (op.name = "GetBalance" /\ calls[1].err = NoErr) =>
        IF Len(calls[1].data) = 0
        THEN ret.err # NoErr /\ ret.val = NoVal
        ELSE /\ ret.err = NoErr
             /\ Len(ret.val.balance) = 1
             /\ ret.val.balance[1].totalWalletBalance + parseFloat(calls[1].data[1].Upl)
                   = parseFloat(calls[1].data[1].TotalEq)
             /\ ret.val.balance[1].availableBalance = parseFloat(calls[1].data[1].AvailEq)
             /\ ret.val.balance[1].totalUnrealizedProfit = parseFloat(calls[1].data[1].Upl)

C12_Witness ==
    /\ op.name = "GetBalance"
    /\ Len(calls[1].data) = 2
    /\ calls[1].data[1].TotalEq = <<"1", "0", "0", "0">>
    /\ calls[1].data[1].Upl = <<"5", "0">>
    /\ calls[1].data[2].TotalEq # calls[1].data[1].TotalEq
    /\ ret.val.balance[1].totalWalletBalance = 950 * Pow10(FracDigits)
    /\ ret.val.balance[1].availableBalance = 800 * Pow10(FracDigits)
    /\ ret.val.balance[1].totalUnrealizedProfit = 50 * Pow10(FracDigits)

\* C13: an entry of the precision cache, once stored, keeps its digit count
\* in every later state, whichever way concurrent formatter calls interleave
\* and whatever the exchange answers: no step replaces a stored digit count.
C13_EntryNeverReplaced ==
    [][\A k \in DOMAIN precisions :
          k \in DOMAIN precisions' /\ precisions'[k] = precisions[k]]_vars

\* C14: an open call whose leverage-set request fails with anything but
\* "leverage unchanged" returns that error and no result and submits no market
\* order; the leverage-set request is the last request of the call, so the
\* cancels the call issued before it stand, none of them followed by a
\* request that would undo it.
C14_LeverageFailureStopsOpen ==
    op.name \in OpenCalls =>
        \A k \in RequestsTo("SetLeverage") :
            (calls[k].err # NoErr /\ ~Contains(calls[k].err, LeverageNotChange)) =>
                /\ ret.err # NoErr
                /\ Contains(ret.err, calls[k].err)
                /\ ret.val = NoVal
                /\ RequestsTo("PlaceOrder") = {}
                /\ k = Len(calls)
                /\ \A i \in 1..(k - 1) :
                      calls[i].api \in {"GetAlgoOrderList", "CancelAlgoOrder"}

C14_Witness ==
    /\ op.name = "OpenLong"
    /\ \E i \in RequestsTo("CancelAlgoOrder") : calls[i].err = NoErr
    /\ \E k \in RequestsTo("SetLeverage") : calls[k].err # NoErr
    /\ ret.err # NoErr

\* C15: a formatter's precision lookup that finds its key in the cache issues
\* no metadata request, returns the cached digit count and leaves the cache
\* as it is; one that misses issues one metadata request for its instrument
\* and, when that succeeds, stores under its key (and no other) the number of
\* digits after the decimal point of the field of its kind (lot size for
\* quantity, tick size for price) and returns it.  A key once looked up with
\* success is in the cache, so no later lookup of it issues a request.
C15_HitAndMiss ==
    [][(op = Idle /\ op'.name \in {"FormatQuantity", "FormatPrice"}) =>
          LET instID == okxSymbol(op'.symbol)
              key == IF op'.name = "FormatQuantity" THEN LotSzKey(instID)
                     ELSE TickSzKey(instID)
          IN IF key \in DOMAIN precisions
             THEN /\ calls' = <<>>
                  /\ Decimals(ret'.val.str) = precisions[key]
                  /\ precisions' = precisions
             ELSE /\ Len(calls') = 1
                  /\ calls'[1].api = "GetInstruments"
                  /\ calls'[1].InstID = instID
                  /\ (calls'[1].err = NoErr /\ Len(calls'[1].data) >= 1) =>
                        /\ DOMAIN precisions' = DOMAIN precisions \cup {key}
                        /\ \A k \in DOMAIN precisions : precisions'[k] = precisions[k]
                        /\ precisions'[key] =
                              Decimals(IF op'.name = "FormatQuantity"
                                       THEN calls'[1].data[1].LotSz
                                       ELSE calls'[1].data[1].TickSz)
                        /\ Decimals(ret'.val.str) = precisions'[key]]_vars

C15_Witness ==
    /\ op.name = "FormatPrice"
    /\ calls = <<>>
    /\ TickSzKey(okxSymbol(op.symbol)) \in DOMAIN precisions
    /\ LotSzKey(okxSymbol(op.symbol)) \in DOMAIN precisions
    /\ Decimals(ret.val.str) = 4

\* C16: SetStopLoss and SetTakeProfit submit one conditional order and return
\* success exactly when its request succeeded, the response holds an entry
\* and the first entry's status code is "0"; a transport failure, an empty
\* response and a rejection each make them return an error.
C16_ContingentResult ==
    op.name \in {"SetStopLoss", "SetTakeProfit"} =>
        /\ Cardinality(RequestsTo("PlaceAlgoOrder")) = 1
        /\ \A i \in RequestsTo("PlaceAlgoOrder") :
              ret.err = NoErr <=>
                 /\ calls[i].err = NoErr
                 /\ Len(calls[i].data) >= 1
                 /\ calls[i].data[1].SCode = "0"

C16_Witness ==
    /\ op.name = "SetTakeProfit"
    /\ \E i \in RequestsTo("PlaceAlgoOrder") :
          /\ calls[i].err = NoErr
          /\ Len(calls[i].data) = 2
          /\ calls[i].data[1].SCode # "0"
          /\ calls[i].data[2].SCode = "0"
    /\ ret.err # NoErr

\* C17: a formatter call whose metadata lookup fails leaves the precision
\* cache as it was, the key still absent and no fallback stored; a call
\* whose key is absent always queries the exchange, so a lookup after a
\* failed one queries again; the call whose lookup succeeds caches the
\* digit count it resolved and renders with it, and every call after that
\* renders with the cached count.
C17_FailureNotCached ==
    [][(op = Idle /\ op'.name \in {"FormatQuantity", "FormatPrice"}) =>
          LET key == IF op'.name = "FormatQuantity" THEN LotSzKey(okxSymbol(op'.symbol))
                     ELSE TickSzKey(okxSymbol(op'.symbol))
              failed == \E i \in 1..Len(calls') :
                           calls'[i].err # NoErr \/ Len(calls'[i].data) = 0
          IN /\ failed => (precisions' = precisions /\ key \notin DOMAIN precisions')
             /\ key \notin DOMAIN precisions =>
                   (Len(calls') = 1 /\ calls'[1].api = "GetInstruments")
             /\ (key \notin DOMAIN precisions /\ ~failed) =>
                   (key \in DOMAIN precisions'
                    /\ Decimals(ret'.val.str) = precisions'[key])
             /\ key \in DOMAIN precisions =>
                   (precisions' = precisions
                    /\ Decimals(ret'.val.str) = precisions[key])]_vars

C17_Witness ==
    /\ op.name = "FormatQuantity"
    /\ \E i \in RequestsTo("GetInstruments") : calls[i].err # NoErr
    /\ Decimals(ret.val.str) = 3
    /\ LotSzKey(okxSymbol(op.symbol)) \notin DOMAIN precisions
    /\ TickSzKey(okxSymbol(op.symbol)) \in DOMAIN precisions

\* C18: every market order a close call with quantity 0 submits has a
\* quantity greater than 0; when the entries of the requested side in the
\* exchange's list all have amount 0, the call returns the not-found error
\* and submits no order.
C18_NoZeroQuantityClose ==
    (op.name \in CloseCalls /\ op.quantity = 0) =>
        LET side == IF op.name = "CloseLong" THEN Long ELSE Short
            listed == calls[1].data
            ofSide == {i \in 1..Len(listed) : listed[i].PosSide = side}
        IN /\ \A j \in RequestsTo("PlaceOrder") : parseFloat(calls[j].Sz) > 0
           /\ (/\ calls[1].err = NoErr
               /\ ofSide # {}
               /\ \A i \in ofSide : parseFloat(listed[i].Pos) = 0)
                 => /\ ret.err = IF side = Long
                                 THEN <<"no long position found for", op.symbol>>
                                 ELSE <<"no short position found for", op.symbol>>
                    /\ RequestsTo("PlaceOrder") = {}

\* C19: when an open call submits its market order, the leverage the
\* exchange holds for the instrument is the leverage the call was given, also
\* when open calls for the symbol with other leverages run at the same time.
C19_OrderAtRequestedLeverage ==
    [][\A t \in 1..NumCallers :
          (threads[t].pc = "order" /\ threads'[t].pc = "done")
             => LeverOf(lever, okxSymbol(threads[t].symbol)) = threads[t].leverage]_vars

\* C20: the listings of CancelAllOrders and of an open call ask for the
\* stop-loss and take-profit orders of the instrument of the call's symbol,
\* and every cancel request is for that instrument and for an order one of
\* these listings returned, so no conditional order of another instrument
\* is touched; a close call issues no listing, no cancel and no leverage-set
\* request.
C20_CancelOnlyOwnInstrument ==
    /\ op.name \in OpenCalls \cup {"CancelAllOrders"} =>
          /\ \A l \in RequestsTo("GetAlgoOrderList") :
                /\ calls[l].InstID = okxSymbol(op.symbol)
                /\ calls[l].InstType = "SWAP"
                /\ calls[l].OrdType \in {"stop", "tp"}
          /\ \A i \in RequestsTo("CancelAlgoOrder") :
                /\ calls[i].InstID = okxSymbol(op.symbol)
                /\ \E l \in RequestsTo("GetAlgoOrderList") :
                      /\ l < i
                      /\ calls[l].err = NoErr
                      /\ \E k \in 1..Len(calls[l].data) :
                            calls[l].data[k].AlgoID = calls[i].AlgoID
    /\ op.name \in CloseCalls =>
          /\ RequestsTo("GetAlgoOrderList") = {}
          /\ RequestsTo("CancelAlgoOrder") = {}
          /\ RequestsTo("SetLeverage") = {}

C20_Witness ==
    /\ op.name = "OpenShort"
    /\ op.symbol = ETH
    /\ Cardinality(RequestsTo("CancelAlgoOrder")) >= 3
    /\ \A i \in RequestsTo("CancelAlgoOrder") : calls[i].InstID = okxSymbol(ETH)
    /\ RequestsTo("PlaceOrder") # {}

====
